---- MODULE Spec2Model ----
(***************************************************************************)
(* A model of src/vlist.js: the VirtualList windowing engine.              *)
(*                                                                         *)
(* One VirtualList instance, attached to the document, on the single       *)
(* cooperative event loop of the browser.  Time is discrete: it advances   *)
(* in steps of Tick milliseconds, and a timer that is due runs before      *)
(* time advances again.  A getNodes call is asynchronous: its callback     *)
(* runs at any later moment, as one atomic step of the event loop.         *)
(***************************************************************************)
EXTENDS Integers, Sequences, FiniteSets

VARIABLES
    viewportH,      \* config.h
    stalled,        \* the data source has dropped the callback of the fetch in flight
    other,          \* a second list in the document: its container's children, and
                    \* whether that container precedes this one in document order
    loading,        \* this.loading
    nextChunk,      \* this.nextChunk: <<>> (false) or <<[node, from]>>
    totalRows,      \* this.totalRows
    scrollerHeight, \* this.scroller.style.height
    children,       \* this.container.childNodes
    inflight,       \* getNodes calls whose callback has not run yet
    scrollTop,      \* this.container.scrollTop
    lastRepaintY,   \* closure variable lastRepaintY
    sinceScrolled,  \* Date.now() - lastScrolled, saturating
    timers,         \* remaining delays of the pending setTimeout callbacks
    reaperIn,       \* remaining delay of the next rmNodeInterval tick
    calls,          \* history: the getNodes calls made by the last step
    burst,          \* history: the last _renderChunk requests made while
                    \* the outstanding fetch was in flight (newest last)
    lastFetch,      \* history: <<>> or << the getNodes call completed last >>
    quietFor,       \* history: time since rows were last flagged obsolete
                    \* or scroll activity, while obsolete rows are mounted
    ev              \* history: what the last step was, for the callbacks:
                    \* op "complete": a items delivered, b newTotalRows,
                    \*   d the value of burst before it;
                    \* op "reap": a nodes removed; op "check"

vars == <<viewportH, stalled, other, loading, nextChunk, totalRows, scrollerHeight, children, inflight,
          scrollTop, lastRepaintY, sinceScrolled, timers, reaperIn,
          calls, burst, lastFetch, quietFor, ev>>

----------------------------------------------------------------------------
(* Configuration and bounds *)

\* config.itemHeight
ItemHeight == 3
\* config.h of the list under Spec
ConfigH == 2
\* scroll offsets the user reaches: 0, ScrollStep, ..., MaxScrollSteps * ScrollStep
ScrollStep == 2
MaxScrollSteps == 3
\* child nodes of the container (the scroller included)
MaxNodes == 7
\* the list behind the data source holds MinTotalRows or MinTotalRows + 1 rows
MinTotalRows == 3

\* setTimeout delay of onScroll
DebounceDelay == 200
\* quiet threshold of the rmNodeInterval callback
QuietThreshold == 100
\* period of rmNodeInterval
ReaperPeriod == 300
\* granularity of time
Tick == QuietThreshold

Undefined == -1

ViewportH == viewportH

\* ev after a step that is no callback of the list
Other == [op |-> "other", a |-> 0, b |-> 0, d |-> <<>>]

\* the offsets the browser allows for every list length of TotalRowsSet
ScrollTops ==
    { y \in { i * ScrollStep : i \in 0..MaxScrollSteps } :
        y + ViewportH <= ItemHeight * MinTotalRows }
TotalRowsSet == { MinTotalRows, MinTotalRows + 1 }

----------------------------------------------------------------------------
(* Pure helpers *)

\* Math.ceil(a / b) for a >= 0, b > 0
Ceil(a, b) == (a + b - 1) \div b

\* parseInt(a / b): the quotient's decimal string, cut at the first
\* non-digit, i.e. truncation toward zero
ParseIntDiv(a, b) ==
    IF a >= 0 THEN a \div b ELSE -((-a) \div b)

Abs(x) == IF x < 0 THEN -x ELSE x

\* n + 'px'
Px(n) == <<n, "px">>

\* !v for a variable holding undefined or a number
Not(v) == v = Undefined \/ v = 0

screenItemsLen == Ceil(ViewportH, ItemHeight)

\* as the source's comment has it: four times the items of a screen
cachedItemsLen_Four == screenItemsLen * 4

cachedItemsLen == screenItemsLen * 3

maxBuffer == screenItemsLen * ItemHeight

Last(s) == s[Len(s)]

\* the last two elements of s
Last2(s) == IF Len(s) <= 2 THEN s ELSE SubSeq(s, Len(s) - 1, Len(s))

----------------------------------------------------------------------------
(* Viewport surface and row factory *)

\* VirtualList.createScroller: the spacer element (its height is scrollerHeight)
createScroller ==
    [kind |-> "scroller", item |-> Undefined, top |-> Px(0),
     rm |-> "", display |-> ""]

\* VirtualList.prototype.createRow(item, i)
createRow(item, i) ==
    [kind |-> "vrow", item |-> item, top |-> Px(i * ItemHeight),
     rm |-> "", display |-> ""]

\* the spacer resized before the new total is stored
updateTotalRows_Stale(s, n) ==
    [totalRows |-> n, scrollerHeight |-> Px(ItemHeight * s.totalRows)]

\* VirtualList.prototype.updateTotalRows on s = [totalRows, scrollerHeight]
updateTotalRows(s, n) ==
    LET s1 == [s EXCEPT !.totalRows = n]
    IN  [s1 EXCEPT !.scrollerHeight = Px(ItemHeight * s1.totalRows)]

\* the loop starting one child too late
MarkObsolete_SkipFirstRow(nodes) ==
    [j \in 1..Len(nodes) |->
        IF j >= 3
        THEN [nodes[j] EXCEPT !.display = "none", !.rm = "1"]
        ELSE nodes[j]]

\* the loop starting at childNodes[0], the scroller
MarkObsolete_FromScroller(nodes) ==
    [j \in 1..Len(nodes) |-> [nodes[j] EXCEPT !.display = "none", !.rm = "1"]]

\* the loop of _renderChunk's callback that hides and flags childNodes[1..]
\* (childNodes[0] is children[1] here)
MarkObsolete(nodes) ==
    [j \in 1..Len(nodes) |->
        IF j >= 2
        THEN [nodes[j] EXCEPT !.display = "none", !.rm = "1"]
        ELSE nodes[j]]

\* rows positioned by their place in the batch, `from` forgotten
Fragment_NoFrom(from, k) ==
    [i \in 1..k |-> createRow(from + (i - 1), i - 1)]

\* the document fragment built by _renderChunk's callback for k items
\* delivered for `from`; the data source's item at logical index n is n
Fragment(from, k) ==
    [i \in 1..k |-> createRow(from + (i - 1), from + (i - 1))]

\* only the first flagged node removed
RemoveBadNodes_FirstOnly(nodes) ==
    IF \E j \in 1..Len(nodes) : nodes[j].rm = "1"
    THEN LET j == CHOOSE j \in 1..Len(nodes) :
                    /\ nodes[j].rm = "1"
                    /\ \A i \in 1..(j - 1) : nodes[i].rm # "1"
         IN  SubSeq(nodes, 1, j - 1) \o SubSeq(nodes, j + 1, Len(nodes))
    ELSE nodes

\* document.querySelectorAll('[data-rm="1"]') followed by removeChild of each
RemoveBadNodes(nodes) ==
    SelectSeq(nodes, LAMBDA n : n.rm # "1")

HasObsolete(nodes) == \E j \in 1..Len(nodes) : nodes[j].rm = "1"

\* no second list in the document
NoOther == [first |-> FALSE, children |-> <<>>]

\* The body of the rmNodeInterval callback of the list whose container holds
\* own, in a document that also holds the container oth.  badNodes lists the
\* flagged nodes of the whole document in document order, and
\* self.container.removeChild(badNodes[i]) throws NotFoundError at the first
\* node that is not a child of self.container, which ends the callback:
\*   - no flagged node in oth: all flagged nodes of own are removed;
\*   - oth precedes: badNodes[0] is a node of oth, nothing is removed;
\*   - oth follows: the flagged nodes of own are removed, then it throws.
ReapDocument(own, oth) ==
    IF ~HasObsolete(oth.children)
    THEN [children |-> RemoveBadNodes(own), threw |-> FALSE]
    ELSE IF oth.first
         THEN [children |-> own, threw |-> TRUE]
         ELSE [children |-> RemoveBadNodes(own), threw |-> TRUE]

----------------------------------------------------------------------------
(* Window scheduler *)

\* the getNodes call _renderChunk makes
GetNodesCall(from) == [from |-> from, count |-> cachedItemsLen]

\* no loading guard: every request fetches at once
renderChunk_NoGuard(s, from) ==
    [s EXCEPT !.nextChunk = <<>>,
              !.loading = TRUE,
              !.inflight = Append(s.inflight, [from |-> from, count |-> cachedItemsLen]),
              !.calls = Append(s.calls, [from |-> from, count |-> cachedItemsLen]),
              !.burst = IF s.loading THEN Last2(Append(s.burst, from)) ELSE <<>>]

\* a queued chunk is kept when a newer request arrives
renderChunk_KeepFirst(s, from) ==
    IF s.loading
    THEN [s EXCEPT !.nextChunk = IF s.nextChunk # <<>> THEN s.nextChunk
                                 ELSE << [node |-> "container", from |-> from] >>,
                   !.burst = Last2(Append(s.burst, from))]
    ELSE [s EXCEPT !.nextChunk = <<>>,
                   !.loading = TRUE,
                   !.inflight = Append(s.inflight, [from |-> from, count |-> cachedItemsLen]),
                   !.calls = Append(s.calls, [from |-> from, count |-> cachedItemsLen]),
                   !.burst = <<>>]

\* the fetch in flight replaced by the new request
renderChunk_Supersede(s, from) ==
    [s EXCEPT !.nextChunk = <<>>,
              !.loading = TRUE,
              !.inflight = << [from |-> from, count |-> cachedItemsLen] >>,
              !.calls = Append(s.calls, [from |-> from, count |-> cachedItemsLen]),
              !.burst = <<>>]

\* the pending slot not emptied when the fetch is issued
renderChunk_NoClear(s, from) ==
    IF s.loading
    THEN [s EXCEPT !.nextChunk = << [node |-> "container", from |-> from] >>,
                   !.burst = Last2(Append(s.burst, from))]
    ELSE [s EXCEPT !.loading = TRUE,
                   !.inflight = Append(s.inflight, [from |-> from, count |-> cachedItemsLen]),
                   !.calls = Append(s.calls, [from |-> from, count |-> cachedItemsLen]),
                   !.burst = <<>>]

\* the queued chunk recorded without its from
renderChunk_QueueZero(s, from) ==
    IF s.loading
    THEN [s EXCEPT !.nextChunk = << [node |-> "container", from |-> 0] >>,
                   !.burst = Last2(Append(s.burst, from))]
    ELSE [s EXCEPT !.nextChunk = <<>>,
                   !.loading = TRUE,
                   !.inflight = Append(s.inflight, [from |-> from, count |-> cachedItemsLen]),
                   !.calls = Append(s.calls, [from |-> from, count |-> cachedItemsLen]),
                   !.burst = <<>>]

\* VirtualList.prototype._renderChunk(node, from) up to the getNodes call,
\* on s = [loading, nextChunk, inflight, calls, burst]
renderChunk(s, from) ==
    IF s.loading
    THEN [s EXCEPT !.nextChunk = << [node |-> "container", from |-> from] >>,
                   !.burst = Last2(Append(s.burst, from))]
    ELSE [s EXCEPT !.nextChunk = <<>>,
                   !.loading = TRUE,
                   !.inflight = Append(s.inflight, GetNodesCall(from)),
                   !.calls = Append(s.calls, GetNodesCall(from)),
                   !.burst = <<>>]

\* loading cleared, the queued chunk left in its slot and not rendered
afterRender_NoDrain(s) ==
    [s EXCEPT !.loading = FALSE]

\* the queued chunk discarded instead of rendered
afterRender_DropPending(s) ==
    [s EXCEPT !.loading = FALSE, !.nextChunk = <<>>]

\* the tail of the getNodes callback: loading = false, then the queued chunk
afterRender(s) ==
    LET s1 == [s EXCEPT !.loading = FALSE]
    IN  IF s1.nextChunk # <<>>
        THEN renderChunk(s1, s1.nextChunk[1].from)
        ELSE s1

Sched == [loading |-> loading, nextChunk |-> nextChunk, inflight |-> inflight,
          calls |-> <<>>, burst |-> burst]

SetSched(s) ==
    /\ loading' = s.loading
    /\ nextChunk' = s.nextChunk
    /\ inflight' = s.inflight
    /\ calls' = s.calls
    /\ burst' = s.burst

\* config.getNodes: how many items the data source delivers for call f when
\* the list holds T rows
ItemsLen(f, T) ==
    IF T - f.from < 0 THEN 0
    ELSE IF T - f.from < f.count THEN T - f.from
    ELSE f.count

RemoveAt(s, i) == SubSeq(s, 1, i - 1) \o SubSeq(s, i + 1, Len(s))

\* the window start passed on without the clamp at 0
First_NoClamp(y, h, n) == ParseIntDiv(y, h) - n

\* onScroll's delayed check: the window start it passes to _renderChunk
\* for scroll offset y, row height h and n rows per screen
First(y, h, n) ==
    LET first == ParseIntDiv(y, h) - n
    IN  IF first < 0 THEN 0 ELSE first

FirstFor(y) == First(y, ItemHeight, screenItemsLen)

\* onScroll's delayed check: whether offset y triggers a repaint
NeedsRepaint(y, last) == Not(last) \/ Abs(y - last) > maxBuffer

----------------------------------------------------------------------------
(* State after construction: new VirtualList(config) *)

\* new VirtualList(config) with config.h = height, in a document that holds
\* the second list oth
InitFor(height, oth) ==
  /\ viewportH = height
  /\ stalled = FALSE
  /\ other = oth
  /\ LET s == renderChunk([loading |-> FALSE, nextChunk |-> <<>>,
                          inflight |-> <<>>, calls |-> <<>>, burst |-> <<>>], 0)
    IN  /\ loading = s.loading
        /\ nextChunk = s.nextChunk
        /\ inflight = s.inflight
        /\ calls = s.calls
        /\ burst = s.burst
        /\ totalRows = 0
        /\ scrollerHeight = Px(0)
        /\ children = << createScroller >>
        /\ scrollTop = 0
        /\ lastRepaintY = Undefined
        /\ sinceScrolled = QuietThreshold + Tick
        /\ timers = <<>>
        /\ reaperIn = ReaperPeriod
        /\ lastFetch = <<>>
        /\ quietFor = 0
        /\ ev = Other

Init == InitFor(ConfigH, NoOther)

----------------------------------------------------------------------------
(* Steps of the event loop *)

\* A raw scroll event: the user has moved the container to offset y, which
\* the browser keeps within the spacer's height; onScroll schedules a check.
\* The browser dispatches at most one scroll event per instant.
Scroll(y) ==
    /\ y # scrollTop
    /\ y + ViewportH <= ItemHeight * totalRows
    /\ \A j \in 1..Len(timers) : timers[j] # DebounceDelay
    /\ scrollTop' = y
    /\ timers' = Append(timers, DebounceDelay)
    /\ quietFor' = 0
    /\ calls' = <<>>
    /\ ev' = Other
    /\ UNCHANGED <<viewportH, stalled, other, loading, nextChunk, totalRows, scrollerHeight, children,
                   inflight, lastRepaintY, sinceScrolled, reaperIn, burst,
                   lastFetch>>

\* The callback of onScroll's setTimeout
ScrollCheck ==
    /\ timers # <<>>
    /\ Head(timers) = 0
    /\ timers' = Tail(timers)
    /\ LET y == scrollTop
           repaint == NeedsRepaint(y, lastRepaintY)
       IN  /\ IF repaint
              THEN /\ SetSched(renderChunk(Sched, FirstFor(y)))
                   /\ lastRepaintY' = y
              ELSE /\ SetSched(Sched)
                   /\ lastRepaintY' = lastRepaintY
           /\ ev' = [op |-> "check", a |-> 0, b |-> 0, d |-> <<>>]
    /\ sinceScrolled' = 0
    /\ quietFor' = 0
    /\ UNCHANGED <<viewportH, stalled, other, totalRows, scrollerHeight, children, scrollTop, reaperIn,
                   lastFetch>>

\* The callback of the i-th outstanding getNodes call runs: the list holds
\* T rows, and the data source delivers its rows from f.from on, at most
\* f.count of them, and newTotalRows = T
Complete(i, T) ==
    /\ i \in 1..Len(inflight)
    /\ Len(children) + ItemsLen(inflight[i], T) <= MaxNodes
    /\ LET f == inflight[i]
           k == ItemsLen(f, T)
           u == updateTotalRows([totalRows |-> totalRows,
                                 scrollerHeight |-> scrollerHeight], T)
       IN  /\ totalRows' = u.totalRows
           /\ scrollerHeight' = u.scrollerHeight
           /\ children' = MarkObsolete(children) \o Fragment(f.from, k)
           /\ SetSched(afterRender([Sched EXCEPT !.inflight = RemoveAt(inflight, i)]))
           /\ lastFetch' = << f >>
           /\ ev' = [op |-> "complete", a |-> k, b |-> T, d |-> burst]
    /\ quietFor' = 0
    /\ UNCHANGED <<viewportH, stalled, other, scrollTop, lastRepaintY, sinceScrolled, timers, reaperIn>>

\* The rmNodeInterval callback
ReaperTick ==
    /\ reaperIn = 0
    /\ reaperIn' = ReaperPeriod
    /\ IF sinceScrolled > QuietThreshold
       THEN /\ children' = ReapDocument(children, other).children
            /\ quietFor' = 0
       ELSE UNCHANGED <<children, quietFor>>
    /\ calls' = <<>>
    /\ ev' = [op |-> "reap",
              a |-> IF sinceScrolled > QuietThreshold
                    THEN Len(children) - Len(ReapDocument(children, other).children)
                    ELSE 0,
              b |-> IF sinceScrolled > QuietThreshold
                       /\ ReapDocument(children, other).threw
                    THEN 1 ELSE 0,
              d |-> <<>>]
    /\ UNCHANGED <<viewportH, stalled, other, loading, nextChunk, totalRows, scrollerHeight, inflight,
                   scrollTop, lastRepaintY, sinceScrolled, timers, burst,
                   lastFetch>>

\* The application calls list.updateTotalRows(n)
UpdateTotalRows(n) ==
    /\ LET u == updateTotalRows([totalRows |-> totalRows,
                                 scrollerHeight |-> scrollerHeight], n)
       IN  /\ totalRows' = u.totalRows
           /\ scrollerHeight' = u.scrollerHeight
    /\ calls' = <<>>
    /\ ev' = Other
    /\ UNCHANGED <<viewportH, stalled, other, loading, nextChunk, children, inflight, scrollTop,
                   lastRepaintY, sinceScrolled, timers, reaperIn, burst,
                   lastFetch, quietFor>>

Min(a, b) == IF a < b THEN a ELSE b

\* Tick milliseconds pass; no timer is due
Advance ==
    /\ reaperIn > 0
    /\ \A j \in 1..Len(timers) : timers[j] > 0
    /\ reaperIn' = reaperIn - Tick
    /\ timers' = [j \in 1..Len(timers) |-> timers[j] - Tick]
    /\ sinceScrolled' = Min(sinceScrolled + Tick, QuietThreshold + Tick)
    /\ quietFor' = IF HasObsolete(children)
                   THEN Min(quietFor + Tick, QuietThreshold + ReaperPeriod + Tick)
                   ELSE 0
    /\ calls' = <<>>
    /\ ev' = Other
    /\ UNCHANGED <<viewportH, stalled, other, loading, nextChunk, totalRows, scrollerHeight, children,
                   inflight, scrollTop, lastRepaintY, burst, lastFetch>>

Next ==
    \/ \E y \in ScrollTops : Scroll(y)
    \/ ScrollCheck
    \/ \E i \in 1..Len(inflight), T \in TotalRowsSet : Complete(i, T)
    \/ ReaperTick
    \/ \E n \in TotalRowsSet : UpdateTotalRows(n)
    \/ Advance

Spec == Init /\ [][Next]_vars

\* A list whose viewport is a whole number of rows (config.h = itemHeight),
\* over a data source of MinTotalRows + 1 or MinTotalRows + 2 rows, scrolled
\* in steps of ScrollStep from one pixel below the top, or back to the top.
OverscanH == ItemHeight
OverscanRows == { MinTotalRows + 1, MinTotalRows + 2 }
OverscanTops ==
    { y \in {0} \cup { i * ScrollStep + 1 : i \in 0..MaxScrollSteps } :
        y + OverscanH <= ItemHeight * (MinTotalRows + 1) }

InitOverscan == InitFor(OverscanH, NoOther)

NextOverscan ==
    \/ \E y \in OverscanTops : Scroll(y)
    \/ ScrollCheck
    \/ \E i \in 1..Len(inflight), T \in OverscanRows : Complete(i, T)
    \/ ReaperTick
    \/ \E n \in OverscanRows : UpdateTotalRows(n)
    \/ Advance

SpecOverscan == InitOverscan /\ [][NextOverscan]_vars

\* The data source stops answering: it keeps the callback of the fetch in
\* flight and never invokes it
Stall ==
    /\ loading
    /\ ~stalled
    /\ stalled' = TRUE
    /\ calls' = <<>>
    /\ ev' = Other
    /\ UNCHANGED <<viewportH, other, loading, nextChunk, totalRows, scrollerHeight,
                   children, inflight, scrollTop, lastRepaintY, sinceScrolled,
                   timers, reaperIn, burst, lastFetch, quietFor>>

\* A list over a data source that may stop answering; the application
\* leaves updateTotalRows to the list.
NextStalled ==
    \/ \E y \in ScrollTops : Scroll(y)
    \/ ScrollCheck
    \/ \E i \in 1..Len(inflight), T \in TotalRowsSet : ~stalled /\ Complete(i, T)
    \/ Stall
    \/ ReaperTick
    \/ Advance

SpecStalled == Init /\ [][NextStalled]_vars

\* The getNodes callback of the second list runs: its rows are flagged and
\* a window of new rows is mounted in its container
OtherComplete ==
    /\ other.children # <<>>
    /\ Len(other.children) + cachedItemsLen <= MaxNodes
    /\ other' = [other EXCEPT !.children =
                    MarkObsolete(other.children) \o Fragment(0, cachedItemsLen)]
    /\ calls' = <<>>
    /\ ev' = Other
    /\ UNCHANGED <<viewportH, stalled, loading, nextChunk, totalRows,
                   scrollerHeight, children, inflight, scrollTop, lastRepaintY,
                   sinceScrolled, timers, reaperIn, burst, lastFetch, quietFor>>

\* The rmNodeInterval callback of the second list runs while that list is
\* quiet
OtherReaperTick ==
    /\ HasObsolete(other.children)
    /\ other' = [other EXCEPT !.children =
                    ReapDocument(other.children,
                                 [first |-> ~other.first,
                                  children |-> children]).children]
    /\ calls' = <<>>
    /\ ev' = Other
    /\ UNCHANGED <<viewportH, stalled, loading, nextChunk, totalRows,
                   scrollerHeight, children, inflight, scrollTop, lastRepaintY,
                   sinceScrolled, timers, reaperIn, burst, lastFetch, quietFor>>

\* Two lists in one document, the second one before or after this one
InitTwo ==
    \E b \in BOOLEAN :
        InitFor(ConfigH, [first |-> b, children |-> << createScroller >>])

NextTwo ==
    \/ \E y \in ScrollTops : Scroll(y)
    \/ ScrollCheck
    \/ \E i \in 1..Len(inflight), T \in TotalRowsSet : Complete(i, T)
    \/ ReaperTick
    \/ Advance
    \/ OtherComplete
    \/ OtherReaperTick

SpecTwo == InitTwo /\ [][NextTwo]_vars

\* A data source that always calls back, and a browser whose clock runs and
\* whose timers fire
SpecLive ==
    /\ Init
    /\ [][Next]_vars
    /\ WF_vars(ScrollCheck)
    /\ WF_vars(\E i \in 1..Len(inflight), T \in TotalRowsSet : Complete(i, T))
    /\ WF_vars(ReaperTick)
    /\ WF_vars(Advance)

----------------------------------------------------------------------------
(* Properties *)

IsLiveRow(n) == n.kind = "vrow" /\ n.rm # "1"

\* the logical index a row element is positioned at
RowIndex(n) == n.top[1] \div ItemHeight

Range(s) == { s[j] : j \in 1..Len(s) }

\* C1: at most one getNodes call is outstanding (issued, not yet called
\* back) in every reachable state, the constructor's fetch included.
C1_AtMostOneInFlight == Len(inflight) <= 1

C1_Witness ==
    /\ ev.op = "check"
    /\ loading
    /\ nextChunk # <<>>
    /\ Len(inflight) = 1

\* C2: requests made while a fetch is in flight issue no getNodes call, and
\* when that fetch completes after n >= 2 such requests, exactly one
\* getNodes call is issued, for the from requested last; the requests
\* before the last one are never fetched.
C2_LastRequestWins ==
    /\ (ev.op = "check" /\ nextChunk # <<>>) =>
          (calls = <<>> /\ Len(inflight) = 1)
    /\ (ev.op = "complete" /\ Len(ev.d) >= 2) =>
          /\ calls = << [from |-> ev.d[Len(ev.d)], count |-> cachedItemsLen] >>
          /\ inflight = calls
          /\ nextChunk = <<>>

C2_Witness ==
    /\ ev.op = "complete"
    /\ Len(ev.d) = 2
    /\ ev.d[1] # ev.d[2]
    /\ Len(calls) = 1
    /\ calls[1].from = ev.d[2]

\* C3: the rows mounted and not flagged obsolete all have their logical
\* index in [from, from + count) of the fetch completed last, and no index
\* has two such rows.
C3_LiveRowsInLastWindow ==
    /\ \A j \in 1..Len(children) :
          IsLiveRow(children[j]) =>
             /\ lastFetch # <<>>
             /\ children[j].top[1] % ItemHeight = 0
             /\ RowIndex(children[j]) >= lastFetch[1].from
             /\ RowIndex(children[j]) < lastFetch[1].from + lastFetch[1].count
    /\ \A i, j \in 1..Len(children) :
          (i < j /\ IsLiveRow(children[i]) /\ IsLiveRow(children[j])) =>
             RowIndex(children[i]) # RowIndex(children[j])

C3_Witness ==
    /\ lastFetch # <<>>
    /\ lastFetch[1].from > 0
    /\ \E j \in 1..Len(children) : IsLiveRow(children[j])
    /\ \E j \in 1..Len(children) : children[j].rm = "1"
    /\ ev.op = "reap"

\* C4 (as claimed): a delayed check that is not the first ever (the first
\* check always sets lastRepaintY) and reads an offset less than maxBuffer
\* away from lastRepaintY calls neither _renderChunk nor getNodes and
\* leaves lastRepaintY alone, whatever lastRepaintY is, 0 included.
C4_SmallMoveNoRepaint ==
    [][ (/\ ev'.op = "check"
         /\ lastRepaintY # Undefined
         /\ scrollTop - lastRepaintY < maxBuffer
         /\ lastRepaintY - scrollTop < maxBuffer)
        => (/\ calls' = <<>>
            /\ nextChunk' = nextChunk
            /\ burst' = burst
            /\ lastRepaintY' = lastRepaintY) ]_vars

\* C5 (as claimed): a burst of raw scroll events less than DebounceDelay
\* apart runs one delayed check, no earlier than DebounceDelay after the
\* last event: when a check runs, no other check is pending.
C5_BurstCollapses ==
    [][ ev'.op = "check" => timers' = <<>> ]_vars

C7_SpacerHeight ==
    /\ scrollerHeight = <<ItemHeight * totalRows, "px">>
    /\ \A n \in 0..(MinTotalRows + 1) :
          LET s  == [totalRows |-> totalRows, scrollerHeight |-> scrollerHeight]
              s1 == updateTotalRows(s, n)
          IN  /\ s1.totalRows = n
              /\ s1.scrollerHeight = <<ItemHeight * n, "px">>
              /\ updateTotalRows(s1, n) = s1

\* no fetch has completed, so the total was set by list.updateTotalRows
C7_Witness ==
    /\ lastFetch = <<>>
    /\ totalRows = MinTotalRows + 1
    /\ scrollerHeight = <<ItemHeight * (MinTotalRows + 1), "px">>

\* max(0, floor(y / h) - n) for y >= 0
WindowStart(y, h, n) ==
    IF (y \div h) - n > 0 THEN (y \div h) - n ELSE 0

\* C8: a delayed check that is the first ever, or reads an offset more
\* than maxBuffer away from lastRepaintY, requests the window starting at
\* max(0, floor(scrollTop / itemHeight) - screenItemsLen) exactly once and
\* records the offset in lastRepaintY (itemHeight 20, 10 rows per screen,
\* offset 5000: from 240).
C8_CheckRequestsWindow ==
    /\ First(5000, 20, Ceil(200, 20)) = 240
    /\ [][ (/\ ev'.op = "check"
            /\ \/ lastRepaintY = Undefined
               \/ scrollTop - lastRepaintY > maxBuffer
               \/ lastRepaintY - scrollTop > maxBuffer)
           => LET want == WindowStart(scrollTop, ItemHeight, screenItemsLen)
              IN  /\ lastRepaintY' = scrollTop
                  /\ IF loading
                     THEN /\ nextChunk' = << [node |-> "container", from |-> want] >>
                          /\ calls' = <<>>
                     ELSE /\ calls' = << [from |-> want, count |-> cachedItemsLen] >>
                          /\ nextChunk' = <<>> ]_vars

C8_Witness ==
    /\ ev.op = "check"
    /\ lastRepaintY = scrollTop
    /\ nextChunk # <<>>
    /\ nextChunk[1].from = 1
    /\ scrollTop \div ItemHeight = 2

\* C9: construction issues the one call getNodes(0, cachedItemsLen); and
\* when the callback of a fetch for `from` delivers k items and totalRows
\* T, exactly k row elements are appended, the i-th at logical index
\* from + i with top (from + i) * itemHeight, and the spacer height
\* becomes itemHeight * T.
C9_CompletionMountsRows ==
    /\ calls = << [from |-> 0, count |-> 3 * Ceil(ViewportH, ItemHeight)] >>
    /\ inflight = calls
    /\ 3 * Ceil(200, 20) = 30
    /\ [][ ev'.op = "complete" =>
             LET f == inflight[1]
                 k == ev'.a
                 n == Len(children)
             IN  /\ Len(children') = n + k
                 /\ \A i \in 1..k :
                       /\ children'[n + i].kind = "vrow"
                       /\ children'[n + i].item = f.from + (i - 1)
                       /\ children'[n + i].top = <<(f.from + (i - 1)) * ItemHeight, "px">>
                       /\ children'[n + i].rm = ""
                       /\ children'[n + i].display = ""
                 /\ \A j \in 1..n :
                       /\ children'[j].kind = children[j].kind
                       /\ children'[j].item = children[j].item
                       /\ children'[j].top = children[j].top
                 /\ totalRows' = ev'.b
                 /\ scrollerHeight' = <<ItemHeight * ev'.b, "px">> ]_vars

C9_Witness ==
    /\ ev.op = "complete"
    /\ ev.a = cachedItemsLen
    /\ lastFetch[1].from = 1
    /\ Len(children) = 1 + 2 * cachedItemsLen
    /\ children[Len(children)].top = <<(1 + cachedItemsLen - 1) * ItemHeight, "px">>
    /\ scrollerHeight = <<ItemHeight * ev.b, "px">>

IsVisible(i) ==
    /\ i * ItemHeight < scrollTop + ViewportH
    /\ (i + 1) * ItemHeight > scrollTop

C11_ViewportInsideWindow ==
    ( /\ ~loading
      /\ lastRepaintY # Undefined
      /\ Abs(scrollTop - lastRepaintY) < maxBuffer )
    => \A i \in 0..(totalRows - 1) :
         IsVisible(i) =>
           /\ lastFetch # <<>>
           /\ i >= lastFetch[1].from
           /\ i < lastFetch[1].from + cachedItemsLen

\* C12: a reaper tick that runs within the quiet threshold after a raw scroll
\* event removes no row.  A raw scroll event leaves its delayed check in
\* timers for DebounceDelay, so the time since the last raw scroll event is
\* DebounceDelay minus the remaining delay of the youngest timer.
SinceRawScroll ==
    IF timers = <<>> THEN DebounceDelay ELSE DebounceDelay - Last(timers)

C12_QuietAfterRawScroll ==
    [][ (ev'.op = "reap" /\ SinceRawScroll <= QuietThreshold) => ev'.a = 0 ]_vars

\* C13: a fetch completion removes no element: every row mounted before it
\* is still mounted, at the same place, hidden and flagged obsolete; every
\* row it creates is mounted after them, shown and not flagged; the
\* scroller is untouched.  In every reachable state, whatever completions
\* and reaper ticks have run, the scroller is the first child and is not
\* flagged.
C13_CompletionOnlyFlags ==
    /\ [](/\ children[1].kind = "scroller"
          /\ children[1].rm # "1"
          /\ \A j \in 2..Len(children) : children[j].kind = "vrow")
    /\ [][ ev'.op = "complete" =>
             LET n == Len(children)
             IN  /\ Len(children') = n + ev'.a
                 /\ children'[1] = children[1]
                 /\ \A j \in 2..n :
                       children'[j] =
                         [children[j] EXCEPT !.display = "none", !.rm = "1"]
                 /\ \A j \in (n + 1)..Len(children') :
                       /\ children'[j].rm # "1"
                       /\ children'[j].display # "none" ]_vars

C13_Witness ==
    /\ ev.op = "complete"
    /\ ev.a > 0
    /\ Len(children) > 1 + ev.a
    /\ \A j \in 2..(Len(children) - ev.a) :
          children[j].rm = "1" /\ children[j].display = "none"
    /\ \A j \in (Len(children) - ev.a + 1)..Len(children) :
          IsLiveRow(children[j])
    /\ children[1].rm # "1"

\* C14: the fetch in flight is never cancelled by a later request.  Every
\* completion is that of the oldest outstanding call; it flags the rows
\* that were mounted before it.  When it runs while a window B is pending,
\* its own totalRows is stored and its own rows are mounted, shown, and in
\* the same step the one call getNodes(B.from, cachedItemsLen) is issued
\* and the pending slot emptied; without a pending window no call is issued.
C14_CompletionThenPending ==
    [][ ev'.op = "complete" =>
          LET A == inflight[1]
              n == Len(children)
          IN  /\ lastFetch' = << A >>
              /\ \A j \in 2..n : children'[j].rm = "1"
              /\ totalRows' = ev'.b
              /\ \A i \in 1..ev'.a :
                    /\ IsLiveRow(children'[n + i])
                    /\ children'[n + i].item = A.from + (i - 1)
              /\ IF nextChunk # <<>>
                 THEN /\ calls' = << [from  |-> nextChunk[1].from,
                                      count |-> cachedItemsLen] >>
                      /\ inflight' = calls'
                      /\ loading'
                      /\ nextChunk' = <<>>
                 ELSE /\ calls' = <<>>
                      /\ inflight' = <<>>
                      /\ ~loading' ]_vars

C14_Witness ==
    /\ ev.op = "complete"
    /\ ev.d # <<>>
    /\ loading
    /\ Len(inflight) = 1
    /\ inflight[1].from # lastFetch[1].from
    /\ HasObsolete(children)
    /\ \E j \in 2..Len(children) :
          IsLiveRow(children[j]) /\ RowIndex(children[j]) = lastFetch[1].from

\* C15: a request for a window made while a fetch is in flight issues no
\* getNodes call and changes nothing but the pending slot, which becomes
\* {node, from} for the requested from: loading, the outstanding call,
\* totalRows, the spacer height and the children with their flags are as
\* before.
C15_RequestWhileLoading ==
    /\ [](loading =>
            \A from \in 0..(MinTotalRows + 1) :
               LET s == renderChunk(Sched, from)
               IN  /\ s.nextChunk = << [node |-> "container", from |-> from] >>
                   /\ s.loading = loading
                   /\ s.inflight = inflight
                   /\ s.calls = <<>>)
    /\ [][ (/\ ev'.op = "check"
            /\ loading
            /\ NeedsRepaint(scrollTop, lastRepaintY))
           => (/\ nextChunk' = << [node |-> "container",
                                   from |-> FirstFor(scrollTop)] >>
               /\ calls' = <<>>
               /\ inflight' = inflight
               /\ loading'
               /\ totalRows' = totalRows
               /\ scrollerHeight' = scrollerHeight
               /\ children' = children) ]_vars

C15_Witness ==
    /\ ev.op = "check"
    /\ loading
    /\ calls = <<>>
    /\ nextChunk # <<>>
    /\ nextChunk[1].from > 0
    /\ nextChunk[1].from # inflight[1].from
    /\ Len(children) > 1

\* C16: once the data source has dropped the callback of an issued fetch,
\* the list stays loading with that one call outstanding for ever: no step
\* issues a getNodes call, mounts or flags a row (the reaper may still
\* remove rows flagged earlier), or changes totalRows or the spacer height;
\* requests only overwrite the pending slot.
C16_StalledFetchBlocks ==
    /\ [](stalled => (loading /\ Len(inflight) = 1 /\ calls = <<>>))
    /\ [][ stalled =>
             /\ stalled'
             /\ loading'
             /\ inflight' = inflight
             /\ calls' = <<>>
             /\ totalRows' = totalRows
             /\ scrollerHeight' = scrollerHeight
             /\ \/ children' = children
                \/ /\ ev'.op = "reap"
                   /\ children' = SelectSeq(children, LAMBDA n : n.rm # "1") ]_vars

C16_Witness ==
    /\ stalled
    /\ ev.op = "check"
    /\ nextChunk # <<>>
    /\ nextChunk[1].from # inflight[1].from
    /\ Len(burst) = 2
    /\ ~HasObsolete(children)
    /\ Len(children) > 1

\* the from of the last _renderChunk request: the constructor asks for 0,
\* every accepted repaint at y for FirstFor(y)
LastRequestedFrom ==
    IF lastRepaintY = Undefined THEN 0 ELSE FirstFor(lastRepaintY)

\* the rows not flagged obsolete are, in order, rows LastRequestedFrom,
\* LastRequestedFrom + 1, ... as delivered for that from
LiveRowsAreLastRequested ==
    LET live == SelectSeq(children, IsLiveRow)
    IN  /\ lastFetch # <<>>
        /\ lastFetch[1].from = LastRequestedFrom
        /\ live = Fragment(LastRequestedFrom, Len(live))
        /\ Len(live) <= cachedItemsLen

\* C17: whenever no fetch is in flight, the fetch completed last is the one
\* for the window requested last; and if the data source always calls back
\* and only finitely many delayed checks run, the list ends up for good
\* with no fetch in flight and with exactly the rows delivered for the last
\* requested from not flagged obsolete.
C17_SettlesOnLastRequest ==
    /\ [](~loading => (/\ lastFetch # <<>>
                       /\ lastFetch[1].from = LastRequestedFrom
                       /\ nextChunk = <<>>))
    /\ (<>[](ev.op # "check")) => <>[](~loading /\ LiveRowsAreLastRequested)

C17_Witness ==
    /\ ~loading
    /\ ev.op = "complete"
    /\ lastRepaintY # Undefined
    /\ LastRequestedFrom > 0
    /\ FirstFor(scrollTop) # LastRequestedFrom
    /\ LiveRowsAreLastRequested
    /\ HasObsolete(children)

\* C18: with a second list in the document, a reaper tick of this list that
\* finds the list quiet completes without error, removes all flagged rows
\* of its own container and leaves the other container as it is, whatever
\* flagged rows the other container holds.
C18_ReaperPerInstance ==
    [][ (ev'.op = "reap" /\ sinceScrolled > QuietThreshold) =>
          /\ ev'.b = 0
          /\ children' = SelectSeq(children, LAMBDA n : n.rm # "1")
          /\ ~HasObsolete(children')
          /\ other' = other ]_vars

\* C19: in every reachable state a non-empty pending slot implies loading;
\* every step that issues a getNodes call leaves the slot empty, so a
\* pending window is fetched once only, and a completion that finds the
\* slot empty issues no call and ends with no fetch in flight and the slot
\* still empty.
C19_PendingOnlyWhileLoading ==
    /\ [](nextChunk # <<>> => loading)
    /\ [][ calls' # <<>> => (nextChunk' = <<>> /\ loading') ]_vars
    /\ [][ (ev'.op = "complete" /\ nextChunk = <<>>) =>
             (calls' = <<>> /\ ~loading' /\ nextChunk' = <<>>) ]_vars

C19_Witness ==
    /\ ev.op = "complete"
    /\ ev.d # <<>>
    /\ calls # <<>>
    /\ calls[1].from = ev.d[Len(ev.d)]
    /\ nextChunk = <<>>
    /\ loading
    /\ lastFetch[1].from = calls[1].from

====
